---- MODULE Spec2Model ----
(***************************************************************************)
(* A state-machine model of the EzGemini-Live front end:                   *)
(*   - the live-session hook (src/hooks/useGeminiLive.ts): connect,        *)
(*     disconnect, toggleMic, startVideoStream and the session callbacks   *)
(*     onopen / onmessage / onclose / onerror;                             *)
(*   - the media start/stop logic of the application (src/App.tsx);        *)
(*   - the turn-based chat hook (src/unnamed/part_000, useGeminiChat);     *)
(*   - the identity provider (src/unnamed/part_001, AuthProvider).         *)
(*                                                                         *)
(* Each hook's state is one record whose fields carry the names of the     *)
(* source's state variables and refs, followed by the part of the browser  *)
(* and SDK world its handlers act on.  A handler is a function from record *)
(* to record, composed statement by statement; an action applies one whole *)
(* synchronous run of a handler (up to its next await).                    *)
(***************************************************************************)
EXTENDS Integers, Sequences, FiniteSets, TLC

VARIABLES live, app, chat, auth

vars == <<live, app, chat, auth>>

\* ------------------------------------------------------------------ bounds
MaxConnects == 2      \* connect() calls in one behaviour
MaxPlaybackConnects == 1   \* connect() calls in one behaviour with audio playback
MaxCursorConnects == 2 \* connect() calls where sessions follow one another
MaxCursorMsgs == 2    \* audio messages over those sessions
MaxMuteConnects == 2  \* connect() calls between which the microphone is toggled
MaxMicConnects == 1   \* connect() calls in one behaviour of SpecMic
MaxMsgs == 2          \* audio-carrying server messages in one behaviour
MaxMicMsgs == 1       \* audio-carrying server messages in one behaviour of SpecMic
MaxTime == 2          \* largest value of the output context's clock
MaxDur == 2           \* largest duration of a decoded audio buffer
MaxTimers == 2        \* startVideoStream() calls in one behaviour
MaxVideoFrames == 1   \* video frames being encoded at one time
MaxRequests == 3      \* startMedia() calls in one behaviour
MaxRecordRequests == 1    \* startMedia() calls in one behaviour of SpecRecord
MaxRecorders == 2     \* recorders made in one behaviour
MaxUploads == 2       \* handleDriveUpload calls in one behaviour
MaxTotal == 3         \* size of an upload, in units the progress events count
MaxChunks == 1        \* non-empty chunks a recorder delivers
MaxSends == 2         \* sendMessage() calls in one behaviour
MaxAuthErrors == 2     \* rejected sign-in attempts in one behaviour
MaxSignOuts == 2      \* signOut() calls in one behaviour
MaxTrans == 1         \* transcribeAudio() calls in one behaviour
MaxTranscribeSends == 1   \* sendMessage() calls in one behaviour of SpecTranscribe

Null == 0

ConnIds == 1..MaxConnects
MsgIds == 1..MaxMsgs
TimerIds == 1..MaxTimers
ReqIds == 1..MaxRequests
SendIds == 1..MaxSends
RecIds == 1..MaxRecorders
HttpStatuses == {200, 204, 403, 500}
SignOutIds == 1..MaxSignOuts
TransIds == 1..MaxTrans

Max(a, b) == IF a >= b THEN a ELSE b

\* ================================================================== live hook

\* An audio buffer that has not been received yet.
NoBuf == [phase |-> "none", ctx |-> Null, dur |-> 0, when |-> 0, begin |-> 0,
          intr |-> FALSE, stale |-> FALSE]

\* useState / useRef initial values, and the world before any call.
\*   session[c]   : the realtime session opened by the c-th connect()
\*   micTrack[c]  : the audio track of the stream acquired by the c-th connect()
\*   processor[c] : input context the script processor made by session c's
\*                  onopen runs in (Null: not made, or disconnected)
\*   buf[m]       : the m-th audio buffer received, and its source node
\*   currentTime  : ctx.currentTime of the open output context
\*   lastOp       : the handler that ran last; micBefore: the microphone flag
\*                  before it ran, when it was toggleMic
LiveInit(key) ==
  [ isConnected |-> FALSE, isStreaming |-> FALSE, isMicOn |-> TRUE,
    status |-> "inactive", error |-> "null",
    inputAudioContextRef |-> Null, outputAudioContextRef |-> Null,
    scriptProcessorRef |-> Null, inputSourceRef |-> Null, audioStreamRef |-> Null,
    isMicOnRef |-> TRUE,
    nextStartTimeRef |-> 0, audioSourcesRef |-> {}, outputGainNodeRef |-> Null,
    sessionPromiseRef |-> Null, videoIntervalRef |-> Null,
    hasApiKey |-> key,
    nConnects |-> 0,
    pc |-> [c \in ConnIds |-> "idle"],
    waitCtx |-> [c \in ConnIds |-> Null],
    session |-> [c \in ConnIds |-> "none"],
    micTrack |-> [c \in ConnIds |-> "none"],
    processor |-> [c \in ConnIds |-> Null],
    pendingFrames |-> {},
    nMsgs |-> 0,
    buf |-> [m \in MsgIds |-> NoBuf],
    currentTime |-> 0,
    nTimers |-> 0, timers |-> {}, videoPending |-> 0,
    lastOp |-> "init", micBefore |-> TRUE ]

\* source.stop() on every member of the scheduled-source set.
StopAll(buf, set) ==
  [m \in MsgIds |-> IF m \in set /\ buf[m].phase = "scheduled"
                    THEN [buf[m] EXCEPT !.phase = "stopped"]
                    ELSE buf[m]]

\* disconnect(), useGeminiLive.ts 35-72: its i-th statement, applied to p.
\*   1: processing node, 37-40        2: audio source node, 41-44
\*   3: media tracks, 45-48           4: input audio context, 49-52
\*   5: scheduled output sources, 55-56    6: output audio context, 57-60
\*   7: frame-sampling timer, 63-66   8: flags and session promise, 68-71
DisconnectStep(p, i) ==
  IF i = 1
  THEN IF p.scriptProcessorRef # Null
       THEN [p EXCEPT !.processor[p.scriptProcessorRef] = Null,
                      !.scriptProcessorRef = Null]
       ELSE p
  ELSE IF i = 2
  THEN IF p.inputSourceRef # Null THEN [p EXCEPT !.inputSourceRef = Null] ELSE p
  ELSE IF i = 3
  THEN IF p.audioStreamRef # Null
       THEN [p EXCEPT !.micTrack[p.audioStreamRef] = "stopped",
                      !.audioStreamRef = Null]
       ELSE p
  ELSE IF i = 4
  THEN IF p.inputAudioContextRef # Null
       THEN [p EXCEPT !.inputAudioContextRef = Null] ELSE p
  ELSE IF i = 5
  THEN [p EXCEPT !.buf = StopAll(p.buf, p.audioSourcesRef),
                 !.audioSourcesRef = {}]
  ELSE IF i = 6
  THEN IF p.outputAudioContextRef # Null
       THEN [p EXCEPT !.outputAudioContextRef = Null] ELSE p
  ELSE IF i = 7
  THEN IF p.videoIntervalRef # Null
       THEN [p EXCEPT !.timers = @ \ {p.videoIntervalRef},
                      !.videoIntervalRef = Null]
       ELSE p
  ELSE [p EXCEPT !.isConnected = FALSE, !.isStreaming = FALSE,
                 !.status = "inactive", !.sessionPromiseRef = Null]

\* Mutant: a teardown that resets the flags before it releases anything.
DisconnectTraceFlagsFirst(h) ==
  LET s0 == DisconnectStep(h, 8)
      s1 == DisconnectStep(s0, 1)
      s2 == DisconnectStep(s1, 2)
      s3 == DisconnectStep(s2, 3)
      s4 == DisconnectStep(s3, 4)
      s5 == DisconnectStep(s4, 5)
      s6 == DisconnectStep(s5, 6)
      s7 == DisconnectStep(s6, 7)
  IN  << s0, s1, s2, s3, s4, s5, s6, s7, s7 >>

\* The states disconnect() passes through, 35-72: element i + 1 is the state
\* after its first i statements.
DisconnectTrace(h) ==
  LET s1 == DisconnectStep(h, 1)
      s2 == DisconnectStep(s1, 2)
      s3 == DisconnectStep(s2, 3)
      s4 == DisconnectStep(s3, 4)
      s5 == DisconnectStep(s4, 5)
      s6 == DisconnectStep(s5, 6)
      s7 == DisconnectStep(s6, 7)
      s8 == DisconnectStep(s7, 8)
  IN  << h, s1, s2, s3, s4, s5, s6, s7, s8 >>

\* disconnect(), 35-72.
Disconnect(h) == DisconnectTrace(h)[9]

\* Mutant: a catch block that reports the error without the teardown.
ConnectCatchNoTeardown(h, c, msg) ==
  [h EXCEPT !.error = msg, !.status = "inactive", !.pc[c] = "done"]

\* The catch block of connect(), 233-238.
ConnectCatch(h, c, msg) ==
  Disconnect([h EXCEPT !.error = msg, !.status = "inactive", !.pc[c] = "done"])

\* connect() from line 219 on: ai.live.connect and the promise bookkeeping.
ConnectOpenSession(h, c) ==
  [h EXCEPT !.session[c] = "connecting", !.sessionPromiseRef = c, !.pc[c] = "done"]

\* connect() lines 100-104: the gain node, then getUserMedia is awaited.
ConnectGain(h, c) ==
  IF h.outputAudioContextRef = Null
  THEN ConnectCatch(h, c, "TypeError")
  ELSE [h EXCEPT !.outputGainNodeRef = h.outputAudioContextRef, !.pc[c] = "getMic"]

\* connect() lines 96-98: the output context's state is read after the first await.
ConnectCheckOutput(h, c, suspOut) ==
  IF h.outputAudioContextRef = Null
  THEN ConnectCatch(h, c, "TypeError")
  ELSE IF suspOut
       THEN [h EXCEPT !.pc[c] = "resumeOut", !.waitCtx[c] = h.outputAudioContextRef]
       ELSE ConnectGain(h, c)

\* connect() lines 76-94: up to the first await.
ConnectStart(h, suspIn, suspOut) ==
  LET c  == h.nConnects + 1
      h0 == [Disconnect(h) EXCEPT !.nConnects = c]
      h1 == [h0 EXCEPT !.error = "null", !.status = "listening"]
  IN  IF ~h1.hasApiKey
      THEN ConnectCatch(h1, c, "API Key not found")
      ELSE LET h2 == [h1 EXCEPT !.inputAudioContextRef = c,
                                !.outputAudioContextRef = c,
                                !.currentTime = 0]
           IN  IF suspIn
               THEN [h2 EXCEPT !.pc[c] = "resumeIn", !.waitCtx[c] = c]
               ELSE ConnectCheckOutput(h2, c, suspOut)

\* The continuation of `await inputAudioContextRef.current.resume()`.  A resume()
\* of a context that was closed meanwhile may be rejected (ok = FALSE).
ConnectResumedIn(h, c, ok, suspOut) ==
  IF ok THEN ConnectCheckOutput(h, c, suspOut) ELSE ConnectCatch(h, c, "InvalidStateError")

\* The continuation of `await outputAudioContextRef.current.resume()`.
ConnectResumedOut(h, c, ok) ==
  IF ok THEN ConnectGain(h, c) ELSE ConnectCatch(h, c, "InvalidStateError")

\* Mutant: the acquired track keeps the enabled state it is created with.
ConnectGotMicEnabled(h, c, granted) ==
  IF ~granted
  THEN ConnectCatch(h, c, "NotAllowedError")
  ELSE ConnectOpenSession([h EXCEPT !.audioStreamRef = c, !.micTrack[c] = "enabled"], c)

\* The continuation of `await getUserMedia`, 104-108, then 110-231.
ConnectGotMic(h, c, granted) ==
  IF ~granted
  THEN ConnectCatch(h, c, "NotAllowedError")
  ELSE ConnectOpenSession(
         [h EXCEPT !.audioStreamRef = c,
                   !.micTrack[c] = IF h.isMicOnRef THEN "enabled" ELSE "disabled"], c)

\* sessionPromise.catch(...), 224-231.
SessionRejected(h, c) ==
  Disconnect([h EXCEPT !.session[c] = "rejected", !.error = "Connection failed",
                       !.isConnected = FALSE, !.isStreaming = FALSE,
                       !.status = "inactive"])

\* callbacks.onopen, 128-158; the session promise resolves with it, and the
\* frames queued on it by `sessionPromiseRef.current.then(...)` are sent.
SessionOpened(h, c) ==
  LET h1 == [h EXCEPT !.session[c] = "open", !.isConnected = TRUE, !.isStreaming = TRUE,
                      !.pendingFrames = @ \ {c}]
  IN  IF h1.inputAudioContextRef # Null /\ h1.audioStreamRef # Null
      THEN [h1 EXCEPT !.inputSourceRef = c, !.scriptProcessorRef = c,
                      !.processor[c] = h1.inputAudioContextRef]
      ELSE h1

\* callbacks.onclose, 204-209.
SessionClosed(h, c) ==
  [h EXCEPT !.session[c] = "closed", !.isConnected = FALSE, !.isStreaming = FALSE,
            !.status = "inactive"]

\* callbacks.onerror, 210-216.
SessionErrored(h, c) ==
  Disconnect([h EXCEPT !.session[c] = "failed", !.error = "Network error occurred",
                       !.isConnected = FALSE, !.isStreaming = FALSE])

\* Mutant: a toggleMic that also ends the streaming state.
ToggleMicStopsStreaming(h) ==
  [h EXCEPT !.isMicOnRef = ~h.isMicOnRef, !.isMicOn = ~h.isMicOnRef,
            !.isStreaming = FALSE, !.status = "inactive"]

\* toggleMic(), 241-251.
ToggleMic(h) ==
  LET newState == ~h.isMicOnRef
      h1 == [h EXCEPT !.isMicOnRef = newState, !.isMicOn = newState]
  IN  IF h1.audioStreamRef # Null /\ h1.micTrack[h1.audioStreamRef] # "stopped"
      THEN [h1 EXCEPT !.micTrack[h1.audioStreamRef] =
                        IF newState THEN "enabled" ELSE "disabled"]
      ELSE h1

\* Mutant: a startVideoStream that does not cancel the timer it replaces.
StartVideoStreamLeaks(h) ==
  [h EXCEPT !.nTimers = @ + 1, !.timers = @ \cup {h.nTimers + 1},
            !.videoIntervalRef = h.nTimers + 1]

\* startVideoStream(), 254-284: the timer is replaced.
StartVideoStream(h) ==
  LET t  == h.nTimers + 1
      h1 == IF h.videoIntervalRef # Null
            THEN [h EXCEPT !.timers = @ \ {h.videoIntervalRef}] ELSE h
  IN  [h1 EXCEPT !.nTimers = t, !.timers = @ \cup {t}, !.videoIntervalRef = t]

\* The interval callback of startVideoStream, 259-269, up to canvas.toBlob:
\* what becomes of the tick.  `hasSize`: videoWidth and videoHeight are non-zero.
VideoTickFate(h, hasSize) ==
  IF h.sessionPromiseRef = Null THEN "nosession"
  ELSE IF ~hasSize THEN "nodims"
  ELSE "captured"

\* videoPending: frames handed to canvas.toBlob whose blob is not encoded yet.
VideoTick(h, hasSize) ==
  IF VideoTickFate(h, hasSize) = "captured" THEN [h EXCEPT !.videoPending = @ + 1] ELSE h

\* The toBlob callback after `await blobToBase64`, 270-279: the frame goes to
\* the session behind sessionPromiseRef, if there is one.
VideoFrameFate(h) ==
  IF h.sessionPromiseRef = Null THEN "dropped"
  ELSE IF h.session[h.sessionPromiseRef] = "open" THEN "sent"
  ELSE IF h.session[h.sessionPromiseRef] = "connecting" THEN "queued"
  ELSE "lost"

VideoBlobReady(h) == [h EXCEPT !.videoPending = @ - 1]

\* scriptProcessor.onaudioprocess of the processor made by session p's onopen,
\* 138-153.  A frame is sent at once when the promise in sessionPromiseRef has
\* resolved to an open session, waits on the promise while it is pending, and is
\* lost otherwise.
FrameFate(h) ==
  IF ~h.isMicOnRef THEN "muted"
  ELSE IF h.sessionPromiseRef = Null THEN "nosession"
  ELSE IF h.session[h.sessionPromiseRef] = "open" THEN "sent"
  ELSE IF h.session[h.sessionPromiseRef] = "connecting" THEN "queued"
  ELSE "lost"

AudioProcess(h) ==
  IF FrameFate(h) = "queued"
  THEN [h EXCEPT !.pendingFrames = @ \cup {h.sessionPromiseRef}]
  ELSE h

\* The interruption branch of onmessage, 196-202.  Every buffer still being
\* decoded was received before this interruption: it is marked stale.
Interrupted(h) ==
  [h EXCEPT !.buf = [m \in MsgIds |->
                       IF StopAll(h.buf, h.audioSourcesRef)[m].phase = "decoding"
                       THEN [h.buf[m] EXCEPT !.stale = TRUE]
                       ELSE StopAll(h.buf, h.audioSourcesRef)[m]],
            !.audioSourcesRef = {},
            !.nextStartTimeRef = 0,
            !.status = "listening"]

\* callbacks.onmessage, 159-167 and 196-202: the synchronous part.  With audio
\* and both output refs set, the handler stops at `await decodeAudioData`.
OnMessage(h, audio, dur, intr) ==
  IF audio /\ h.outputAudioContextRef # Null /\ h.outputGainNodeRef # Null
  THEN LET m == h.nMsgs + 1
       IN  [h EXCEPT !.status = "speaking",
                     !.nextStartTimeRef = Max(h.nextStartTimeRef, h.currentTime),
                     !.nMsgs = m,
                     !.buf[m] = [phase |-> "decoding", ctx |-> h.outputAudioContextRef,
                                 dur |-> dur, when |-> 0, begin |-> 0,
                                 intr |-> intr, stale |-> FALSE]]
  ELSE IF intr THEN Interrupted(h) ELSE h

\* source.start(when): playback begins at `when`, or at once when `when` has
\* passed (AudioScheduledSourceNode.start).
PlaybackBegin(when, now) == Max(when, now)

\* The source node after source.start(when) at clock `now`; on a closed context
\* it never renders ("silent").
Started(b, when, now, rendering) ==
  IF rendering
  THEN [b EXCEPT !.phase = "scheduled", !.when = when,
                 !.begin = PlaybackBegin(when, now), !.intr = FALSE]
  ELSE [b EXCEPT !.phase = "silent", !.when = when, !.intr = FALSE]

\* The continuation of `await decodeAudioData`, 176-189 (or the catch, 190-192),
\* then the interruption branch, 196-202.
Decoded(h, m, ok) ==
  LET b  == h.buf[m]
      h1 == IF ok
            THEN [h EXCEPT !.buf[m] = Started(b, h.nextStartTimeRef, h.currentTime,
                                              b.ctx = h.outputAudioContextRef),
                           !.nextStartTimeRef = h.nextStartTimeRef + b.dur,
                           !.audioSourcesRef = @ \cup {m}]
            ELSE [h EXCEPT !.buf[m] = [b EXCEPT !.phase = "failed", !.intr = FALSE]]
  IN  IF b.intr THEN Interrupted(h1) ELSE h1

\* The 'ended' listener of a source, 180-185.
SourceEnded(h, m) ==
  LET h1 == [h EXCEPT !.buf[m].phase = IF @ = "stopped" THEN "halted" ELSE "ended",
                      !.audioSourcesRef = @ \ {m}]
  IN  IF Cardinality(h1.audioSourcesRef) = 0 THEN [h1 EXCEPT !.status = "listening"] ELSE h1

\* A source fires 'ended' when it has played to its end, or after stop(), and
\* only while its context renders: a closed context dispatches nothing.
CanEnd(h, m) ==
  /\ h.buf[m].ctx # Null
  /\ h.buf[m].ctx = h.outputAudioContextRef
  /\ \/ h.buf[m].phase = "stopped"
     \/ h.buf[m].phase = "scheduled" /\ h.currentTime >= h.buf[m].begin + h.buf[m].dur

\* ------------------------------------------------------------------ actions
Op(h, name) == [h EXCEPT !.lastOp = name, !.micBefore = h.isMicOnRef]

\* The resources disconnect() releases, in the order of the statements of
\* DisconnectStep: resource i is held in h.
Held(h, i) ==
  IF i = 1 THEN h.scriptProcessorRef # Null
  ELSE IF i = 2 THEN h.inputSourceRef # Null
  ELSE IF i = 3 THEN h.audioStreamRef # Null
  ELSE IF i = 4 THEN h.inputAudioContextRef # Null
  ELSE IF i = 5 THEN h.audioSourcesRef # {}
  ELSE IF i = 6 THEN h.outputAudioContextRef # Null
  ELSE h.videoIntervalRef # Null

LiveDisconnect ==
  /\ live' = Op(Disconnect(live),
                IF \A i \in 1..7 : Held(live, i) THEN "disconnect_all" ELSE "disconnect")
  /\ UNCHANGED <<app, chat, auth>>

ConnectCall(max) ==
  /\ live.nConnects < max
  /\ \E suspIn \in BOOLEAN, suspOut \in BOOLEAN :
       live' = Op(ConnectStart(live, suspIn, suspOut), "connect")
  /\ UNCHANGED <<app, chat, auth>>

LiveConnect == ConnectCall(MaxConnects)

PlaybackConnect == ConnectCall(MaxPlaybackConnects)

MicConnect == ConnectCall(MaxMicConnects)

LiveConnectResumedIn ==
  /\ \E c \in ConnIds, ok \in BOOLEAN, suspOut \in BOOLEAN :
       /\ live.pc[c] = "resumeIn"
       /\ (~ok) => live.inputAudioContextRef # live.waitCtx[c]
       /\ live' = Op(ConnectResumedIn(live, c, ok, suspOut), "connect_resumed")
  /\ UNCHANGED <<app, chat, auth>>

LiveConnectResumedOut ==
  /\ \E c \in ConnIds, ok \in BOOLEAN :
       /\ live.pc[c] = "resumeOut"
       /\ (~ok) => live.outputAudioContextRef # live.waitCtx[c]
       /\ live' = Op(ConnectResumedOut(live, c, ok), "connect_resumed")
  /\ UNCHANGED <<app, chat, auth>>

LiveConnectGotMic ==
  /\ \E c \in ConnIds, granted \in BOOLEAN :
       /\ live.pc[c] = "getMic"
       /\ live' = Op(ConnectGotMic(live, c, granted),
                     IF granted THEN "connect_mic" ELSE "connect_mic_denied")
  /\ UNCHANGED <<app, chat, auth>>

LiveSessionRejected ==
  /\ \E c \in ConnIds :
       /\ live.session[c] = "connecting"
       /\ live' = Op(SessionRejected(live, c), "rejected")
  /\ UNCHANGED <<app, chat, auth>>

LiveSessionOpened ==
  /\ \E c \in ConnIds :
       /\ live.session[c] = "connecting"
       /\ live' = Op(SessionOpened(live, c),
                     IF c \in live.pendingFrames THEN "onopen_flush" ELSE "onopen")
  /\ UNCHANGED <<app, chat, auth>>

LiveSessionClosed ==
  /\ \E c \in ConnIds :
       /\ live.session[c] \in {"open", "failed"}
       /\ live' = Op(SessionClosed(live, c), "onclose")
  /\ UNCHANGED <<app, chat, auth>>

LiveSessionErrored ==
  /\ \E c \in ConnIds :
       /\ live.session[c] \in {"connecting", "open"}
       /\ live' = Op(SessionErrored(live, c), "onerror")
  /\ UNCHANGED <<app, chat, auth>>

LiveToggleMic ==
  /\ live' = [Op(ToggleMic(live), "toggleMic") EXCEPT !.micBefore = live.isMicOnRef]
  /\ UNCHANGED <<app, chat, auth>>

LiveStartVideoStream ==
  /\ live.nTimers < MaxTimers
  /\ live' = Op(StartVideoStream(live), "startVideoStream")
  /\ UNCHANGED <<app, chat, auth>>

LiveVideoTick ==
  /\ live.videoPending < MaxVideoFrames
  /\ \E t \in live.timers, hasSize \in BOOLEAN :
       live' = Op(VideoTick(live, hasSize), "videotick_" \o VideoTickFate(live, hasSize))
  /\ UNCHANGED <<app, chat, auth>>

LiveVideoBlobReady ==
  /\ live.videoPending > 0
  /\ live' = Op(VideoBlobReady(live), "videoframe_" \o VideoFrameFate(live))
  /\ UNCHANGED <<app, chat, auth>>

LiveAudioProcess ==
  /\ \E p \in ConnIds :
       /\ live.processor[p] # Null
       /\ live.processor[p] = live.inputAudioContextRef
       /\ live' = Op(AudioProcess(live), "frame_" \o FrameFate(live))
  /\ UNCHANGED <<app, chat, auth>>

OnMessageCall(max, durations) ==
  /\ \E c \in ConnIds, audio \in BOOLEAN, intr \in BOOLEAN, dur \in durations :
       /\ live.session[c] = "open"
       /\ audio \/ intr
       /\ audio => live.nMsgs < max
       /\ (~audio) => \A d \in durations : dur <= d
       /\ live' = Op(OnMessage(live, audio, dur, intr),
                     IF audio /\ live.outputAudioContextRef # Null
                              /\ live.outputGainNodeRef # Null
                     THEN "onmessage_audio"
                     ELSE IF intr THEN "onmessage_interrupted" ELSE "onmessage_ignored")
  /\ UNCHANGED <<app, chat, auth>>

LiveOnMessage == OnMessageCall(MaxMsgs, 1..MaxDur)

\* Where the audio clock stands still, every buffer has the same duration.
MicDurations == {1}

MicOnMessage == OnMessageCall(MaxMicMsgs, MicDurations)

CursorConnect == ConnectCall(MaxCursorConnects)

MuteConnect == ConnectCall(MaxMuteConnects)

CursorOnMessage == OnMessageCall(MaxCursorMsgs, MicDurations)

LiveDecoded ==
  /\ \E m \in MsgIds, ok \in BOOLEAN :
       /\ live.buf[m].phase = "decoding"
       /\ live' = Op(Decoded(live, m, ok),
                     IF live.buf[m].intr THEN "decoded_interrupted" ELSE "decoded")
  /\ UNCHANGED <<app, chat, auth>>

LiveSourceEnded ==
  /\ \E m \in MsgIds :
       /\ CanEnd(live, m)
       /\ live' = Op(SourceEnded(live, m), "ended")
  /\ UNCHANGED <<app, chat, auth>>

\* The audio clock of the open output context advances.
LiveTick ==
  /\ live.outputAudioContextRef # Null
  /\ live.currentTime < MaxTime
  /\ live' = Op([live EXCEPT !.currentTime = @ + 1], "tick")
  /\ UNCHANGED <<app, chat, auth>>

\* ================================================================== App media

LiveModes == {"SCREEN", "CAMERA"}

\* SaveRecordingDialog state, part_004 17-21.
\*   uploadProgress : the last value passed to setUploadProgress, as the exact
\*                    fraction num / den
\*   pc          : where the handleDriveUpload call in progress stands
\*   scripts     : window.google.accounts.oauth2 is present
\*   nUploads    : handleDriveUpload calls so far
\*   flowErrors  : error messages set since the last handleDriveUpload call
SaveInit ==
  [ isUploading |-> FALSE, uploadProgress |-> [num |-> 0, den |-> 1],
    driveError |-> "null", uploadSuccess |-> FALSE,
    pc |-> "idle", scripts |-> FALSE, nUploads |-> 0, flowErrors |-> 0 ]

\* The effect on isOpen, part_004 23-30.
SaveOpened(d) ==
  [d EXCEPT !.driveError = "null", !.uploadSuccess = FALSE,
            !.uploadProgress = [num |-> 0, den |-> 1]]

SetDriveError(d, msg) == [d EXCEPT !.driveError = msg, !.flowErrors = @ + 1]

\* handleDriveUpload, part_004 47-51, up to `await loadGoogleScripts()`.
HandleDriveUpload(d) ==
  [d EXCEPT !.isUploading = TRUE, !.driveError = "null", !.pc = "loading",
            !.nUploads = @ + 1, !.flowErrors = 0]

\* Mutant: a catch block that leaves the uploading flag set.
DriveUploadCatchKeepsFlag(d) ==
  [SetDriveError(d, "Could not initialize Google Sign-In. Make sure GOOGLE_CLIENT_ID is set.")
     EXCEPT !.pc = "idle"]

\* The catch block of handleDriveUpload, part_004 80-84.
DriveUploadCatch(d) ==
  [SetDriveError(d, "Could not initialize Google Sign-In. Make sure GOOGLE_CLIENT_ID is set.")
     EXCEPT !.isUploading = FALSE, !.pc = "idle"]

\* loadGoogleScripts resolves (useGeminiLive.ts 345-360); then part_004 53-79:
\* initTokenClient and requestAccessToken, either of which may throw.
ScriptsLoaded(d, throws) ==
  IF throws THEN DriveUploadCatch([d EXCEPT !.scripts = TRUE])
  ELSE [d EXCEPT !.scripts = TRUE, !.pc = "token"]

\* script.onerror rejects loadGoogleScripts, useGeminiLive.ts 357.
ScriptsFailed(d) == DriveUploadCatch(d)

\* The token client's callback, part_004 56-76, up to `await uploadToDrive`.
TokenResponse(d, hasToken) ==
  IF hasToken THEN [d EXCEPT !.pc = "uploading"]
  ELSE [SetDriveError(d, "Failed to obtain access token.")
          EXCEPT !.isUploading = FALSE, !.pc = "idle"]

\* xhr.upload.onprogress, useGeminiLive.ts 381-387, and the callback of
\* part_004 63.
UploadProgress(d, lengthComputable, loaded, total) ==
  IF lengthComputable
  THEN [d EXCEPT !.uploadProgress = [num |-> loaded * 100, den |-> total]]
  ELSE d

\* The catch and finally blocks around `await uploadToDrive`, part_004 67-71.
UploadRejected(d, msg) ==
  [SetDriveError(d, msg) EXCEPT !.isUploading = FALSE, !.pc = "idle"]

\* xhr.onload, useGeminiLive.ts 389-395, and the continuation in part_004
\* 65-71.  `parses`: JSON.parse accepts the response body; when it throws
\* inside onload the promise is never settled.
UploadLoaded(d, status, parses) ==
  IF status >= 200 /\ status < 300
  THEN IF parses
       THEN [d EXCEPT !.uploadSuccess = TRUE, !.isUploading = FALSE, !.pc = "idle"]
       ELSE [d EXCEPT !.pc = "hung"]
  ELSE UploadRejected(d, "Upload failed")

\* xhr.onerror, useGeminiLive.ts 397.
UploadNetworkError(d) == UploadRejected(d, "Network error during upload")

\* App.tsx 92-123: the state and refs startMedia and handleDisconnect act on.
\*   req[r]    : the r-th startMedia call; `late` records that the call had been
\*               superseded when its device acquisition resolved
\*   stream[r] : the stream acquired by the r-th call
\*   screenRecorder : state of the recorder in screenRecorderRef; screenMime:
\*               the type it was made with; nRecorders: recorders made so far
\*   screenChunksRef : the chunks in the buffer, each <<recorder, index>>
\*   recPending  : per recorder, "stop" from its stop() until the task that
\*               fires its final dataavailable and stop events, then "done"
\*   emitted     : per recorder, the non-empty chunks it has delivered
\*   recordedBlob: the parts of the blob last passed to setRecordedBlob (none
\*               after setRecordedBlob(null)); nBlobs: blobs built so far
\*   save        : the state of SaveRecordingDialog, which stays mounted
\*   supported : the types MediaRecorder.isTypeSupported accepts
AppInit ==
  [ liveMode |-> "NONE", isMediaLoading |-> FALSE, isScreenRecording |-> FALSE,
    streamRef |-> Null, startMediaRequestRef |-> 0,
    screenRecorder |-> "none", screenMime |-> "", nRecorders |-> 0,
    screenChunksRef |-> << >>, supported |-> {},
    recPending |-> [k \in RecIds |-> "none"],
    emitted |-> [k \in RecIds |-> << >>],
    recordedBlob |-> << >>, nBlobs |-> 0, isSaveDialogOpen |-> FALSE,
    save |-> SaveInit,
    req |-> [r \in ReqIds |-> [pc |-> "idle", mode |-> "NONE", late |-> FALSE]],
    stream |-> [r \in ReqIds |-> "none"],
    onended |-> {},
    lastOp |-> "init" ]

\* stream.getTracks().forEach(t => t.stop())
StopStream(a, r) ==
  IF r # Null /\ a.stream[r] = "live" THEN [a EXCEPT !.stream[r] = "stopped"] ELSE a

\* The finally block of startMedia, 359-363.
StartMediaFinally(a, r) ==
  LET a1 == [a EXCEPT !.req[r].pc = "done"]
  IN  IF r = a1.startMediaRequestRef THEN [a1 EXCEPT !.isMediaLoading = FALSE] ELSE a1

\* startMedia 350-354, then the finally block.
StartMediaTail(a, r) ==
  StartMediaFinally([a EXCEPT !.liveMode = a.req[r].mode, !.onended = @ \cup {r}], r)

\* startMedia 260-290: up to the device acquisition.
StartMedia(a, mode) ==
  LET r == a.startMediaRequestRef + 1
  IN  [a EXCEPT !.startMediaRequestRef = r, !.isMediaLoading = TRUE,
                !.req[r] = [pc |-> "acquiring", mode |-> mode, late |-> FALSE]]

\* Mutant: the continuation without the staleness test of 292-295.
AcquireResolvedUnchecked(a, r, mounted) ==
  LET a1 == [a EXCEPT !.stream[r] = "live"]
      a2 == [StopStream(a1, a1.streamRef) EXCEPT !.streamRef = r]
  IN  IF mounted THEN [a2 EXCEPT !.req[r].pc = "playing"] ELSE StartMediaTail(a2, r)

\* The continuation of the acquisition, 292-342; `mounted`: videoRef.current is set.
AcquireResolved(a, r, mounted) ==
  LET a1 == [a EXCEPT !.stream[r] = "live"]
  IN  IF r # a1.startMediaRequestRef
      THEN StartMediaFinally(StopStream(a1, r), r)
      ELSE LET a2 == [StopStream(a1, a1.streamRef) EXCEPT !.streamRef = r]
           IN  IF mounted THEN [a2 EXCEPT !.req[r].pc = "playing"]
               ELSE StartMediaTail(a2, r)

\* The acquisition is rejected: the catch block, 356-358, then finally.
AcquireRejected(a, r) == StartMediaFinally(a, r)

\* The ordered preference list of handleToggleScreenRecord, 377-382.
MimeTypes == << "video/webm;codecs=vp9,opus", "video/webm;codecs=vp8,opus",
                "video/webm", "video/mp4" >>

\* Mutant: the last supported type of the list instead of the first.
RECURSIVE FindLast(_, _, _)
FindLast(list, i, supported) ==
  IF i > Len(list) THEN ""
  ELSE IF FindLast(list, i + 1, supported) # "" THEN FindLast(list, i + 1, supported)
  ELSE IF list[i] \in supported THEN list[i]
  ELSE ""

\* mimeTypes.find(type => MediaRecorder.isTypeSupported(type)) || '', 384.
RECURSIVE Find(_, _, _)
Find(list, i, supported) ==
  IF i > Len(list) THEN ""
  ELSE IF list[i] \in supported THEN list[i]
  ELSE Find(list, i + 1, supported)

\* screenRecorderRef.current?.stop(), 372 and 420: a recording recorder becomes
\* inactive and a task is queued that fires its final dataavailable and stop.
StopRecorder(a) ==
  IF a.screenRecorder = "recording"
  THEN [a EXCEPT !.screenRecorder = "stopped", !.recPending[a.nRecorders] = "stop"]
  ELSE a

\* handleToggleScreenRecord, 370-416.  `throws`: the MediaRecorder constructor
\* ("ctor") or recorder.start() ("start") throws, or neither ("none").
HandleToggleScreenRecord(a, throws) ==
  IF a.isScreenRecording
  THEN [StopRecorder(a) EXCEPT !.isScreenRecording = FALSE]
  ELSE IF a.streamRef = Null THEN a
  ELSE LET mimeType == Find(MimeTypes, 1, a.supported)
       IN  IF mimeType = "" THEN a
           ELSE IF throws = "ctor" THEN a
           ELSE LET a1 == [a EXCEPT !.nRecorders = @ + 1, !.screenRecorder = "inactive",
                                    !.screenMime = mimeType, !.screenChunksRef = << >>]
                IN  IF throws = "start" THEN a1
                    ELSE [a1 EXCEPT !.screenRecorder = "recording",
                                    !.isScreenRecording = TRUE]

\* recorder.ondataavailable of recorder k, 397-401.  `nonEmpty`:
\* event.data.size > 0.
DataAvailable(a, k, nonEmpty) ==
  IF nonEmpty
  THEN [a EXCEPT !.screenChunksRef = Append(@, <<k, Len(a.emitted[k]) + 1>>),
                 !.emitted[k] = Append(@, <<k, Len(a.emitted[k]) + 1>>)]
  ELSE a

\* recorder.onstop of recorder k, 403-407; the dialog's effect runs when isOpen
\* turns true.
RecorderStopped(a, k) ==
  [a EXCEPT !.recPending[k] = "done", !.recordedBlob = a.screenChunksRef,
            !.nBlobs = @ + 1, !.isSaveDialogOpen = TRUE,
            !.save = IF a.isSaveDialogOpen THEN @ ELSE SaveOpened(@)]

\* onClose of the dialog, App.tsx 932-935.
SaveClose(a) == [a EXCEPT !.isSaveDialogOpen = FALSE, !.recordedBlob = << >>]

\* handleDisconnect 418-431, the part acting on the App's own state.
HandleDisconnectApp(a) ==
  LET a1 == IF a.isScreenRecording
            THEN [StopRecorder(a) EXCEPT !.isScreenRecording = FALSE]
            ELSE a
      a2 == IF a1.streamRef # Null
            THEN [StopStream(a1, a1.streamRef) EXCEPT !.streamRef = Null]
            ELSE a1
  IN  [a2 EXCEPT !.liveMode = "NONE"]

\* ------------------------------------------------------------------ actions
AppOp(a, name) == [a EXCEPT !.lastOp = name]

StartMediaCall(max) ==
  /\ app.startMediaRequestRef < max
  /\ \E mode \in LiveModes : app' = AppOp(StartMedia(app, mode), "startMedia")
  /\ UNCHANGED <<live, chat, auth>>

AppStartMedia == StartMediaCall(MaxRequests)

RecordStartMedia == StartMediaCall(MaxRecordRequests)

AppToggleScreenRecord ==
  /\ app.isScreenRecording \/ app.nRecorders < MaxRecorders
  /\ \E throws \in {"none", "ctor", "start"} :
       app' = AppOp(HandleToggleScreenRecord(app, throws),
                    IF app.isScreenRecording THEN "stopScreenRecord"
                    ELSE "startScreenRecord")
  /\ UNCHANGED <<live, chat, auth>>

\* The recorder in screenRecorderRef delivers data while it records.
AppDataAvailable ==
  /\ app.screenRecorder = "recording"
  /\ Len(app.emitted[app.nRecorders]) < MaxChunks
  /\ app' = AppOp(DataAvailable(app, app.nRecorders, TRUE), "dataavailable")
  /\ UNCHANGED <<live, chat, auth>>

\* The task queued by stop(): the final dataavailable, then the stop event.
AppRecorderStopped ==
  /\ \E k \in RecIds, nonEmpty \in BOOLEAN :
       /\ app.recPending[k] = "stop"
       /\ nonEmpty => Len(app.emitted[k]) < MaxChunks
       /\ app' = AppOp(RecorderStopped(DataAvailable(app, k, nonEmpty), k),
                       "recorder_stop")
  /\ UNCHANGED <<live, chat, auth>>

AppSaveClose ==
  /\ app.isSaveDialogOpen
  /\ app' = AppOp(SaveClose(app), "saveClose")
  /\ UNCHANGED <<live, chat, auth>>

\* The upload button, part_004 131-132: shown with the dialog, disabled while
\* uploading or after a success.
AppHandleDriveUpload ==
  /\ app.isSaveDialogOpen
  /\ ~app.save.isUploading /\ ~app.save.uploadSuccess
  /\ app.save.nUploads < MaxUploads
  /\ app' = AppOp([app EXCEPT !.save = HandleDriveUpload(@)], "handleDriveUpload")
  /\ UNCHANGED <<live, chat, auth>>

AppScriptsLoaded ==
  /\ app.save.pc = "loading"
  /\ \E throws \in BOOLEAN :
       app' = AppOp([app EXCEPT !.save = ScriptsLoaded(@, throws)],
                    IF throws THEN "upload_initFailed" ELSE "upload_tokenRequested")
  /\ UNCHANGED <<live, chat, auth>>

AppScriptsFailed ==
  /\ app.save.pc = "loading"
  /\ ~app.save.scripts
  /\ app' = AppOp([app EXCEPT !.save = ScriptsFailed(@)], "upload_scriptFailed")
  /\ UNCHANGED <<live, chat, auth>>

AppTokenResponse ==
  /\ app.save.pc = "token"
  /\ \E hasToken \in BOOLEAN :
       app' = AppOp([app EXCEPT !.save = TokenResponse(@, hasToken)],
                    IF hasToken THEN "upload_started" ELSE "upload_noToken")
  /\ UNCHANGED <<live, chat, auth>>

AppUploadProgress ==
  /\ app.save.pc = "uploading"
  /\ \E lengthComputable \in BOOLEAN, total \in 1..MaxTotal :
       \E loaded \in 0..total :
         app' = AppOp([app EXCEPT !.save = UploadProgress(@, lengthComputable, loaded, total)],
                      "upload_progress")
  /\ UNCHANGED <<live, chat, auth>>

AppUploadLoaded ==
  /\ app.save.pc = "uploading"
  /\ \E status \in HttpStatuses, parses \in BOOLEAN :
       app' = AppOp([app EXCEPT !.save = UploadLoaded(@, status, parses)],
                    IF status >= 200 /\ status < 300
                    THEN IF parses THEN "upload_success" ELSE "upload_unparsed"
                    ELSE "upload_rejected")
  /\ UNCHANGED <<live, chat, auth>>

AppUploadNetworkError ==
  /\ app.save.pc = "uploading"
  /\ app' = AppOp([app EXCEPT !.save = UploadNetworkError(@)], "upload_networkError")
  /\ UNCHANGED <<live, chat, auth>>

AppAcquireResolved ==
  /\ \E r \in ReqIds, mounted \in BOOLEAN :
       /\ app.req[r].pc = "acquiring"
       /\ app' = [AppOp(AcquireResolved(app, r, mounted), "acquired")
                   EXCEPT !.req[r].late = (r # app.startMediaRequestRef)]
  /\ UNCHANGED <<live, chat, auth>>

AppAcquireRejected ==
  /\ \E r \in ReqIds :
       /\ app.req[r].pc = "acquiring"
       /\ app' = AppOp(AcquireRejected(app, r), "acquire_rejected")
  /\ UNCHANGED <<live, chat, auth>>

\* The continuation of `await videoRef.current.play()`, 343-354.
AppPlayResolved ==
  /\ \E r \in ReqIds :
       /\ app.req[r].pc = "playing"
       /\ app' = AppOp(StartMediaTail(app, r), "played")
       /\ live' = IF r = app.startMediaRequestRef /\ live.nTimers < MaxTimers
                  THEN Op(StartVideoStream(live), "startVideoStream")
                  ELSE live
  /\ UNCHANGED <<chat, auth>>

\* play() is rejected: the inner catch, 346-348, then 350-354.
AppPlayRejected ==
  /\ \E r \in ReqIds :
       /\ app.req[r].pc = "playing"
       /\ app' = AppOp(StartMediaTail(app, r), "play_rejected")
  /\ UNCHANGED <<live, chat, auth>>

AppHandleDisconnect ==
  /\ app' = AppOp(HandleDisconnectApp(app), "handleDisconnect")
  /\ live' = Op(Disconnect(live), "disconnect")
  /\ UNCHANGED <<chat, auth>>

\* The video track of a stream ends by itself; its onended handler, 352-354.
AppTrackEnded ==
  /\ \E r \in ReqIds :
       /\ app.stream[r] = "live"
       /\ r \in app.onended
       /\ LET a1 == [app EXCEPT !.stream[r] = "stopped"]
          IN  IF a1.streamRef = r
              THEN /\ app' = AppOp(HandleDisconnectApp(a1), "track_ended")
                   /\ live' = Op(Disconnect(live), "disconnect")
              ELSE /\ app' = AppOp(a1, "track_ended")
                   /\ UNCHANGED live
  /\ UNCHANGED <<chat, auth>>

\* ================================================================== chat hook

Texts == {"Hello", "Hi"}
Replies == {"", "Sure"}
ChatModelTypes == {"fast", "smart", "thinking"}

\* Values of response.text for a transcription request: absent, empty, a text.
TranscribeReplies == {"undefined", "", "Hello there"}

\* useGeminiChat state, part_000 13-15, and the calls in flight.
\*   call[k]    : the k-th sendMessage call
\*   trans[t]   : the t-th transcribeAudio call; returned: the value the last
\*                completed one returned to its caller ("threw": it rejected);
\*                replied: the response.text it was given
\*   overlapped : a sendMessage call has started while another was in flight
\*   lastOp     : the handler that ran last
ChatInit(key) ==
  [ messages |-> << >>, isLoading |-> FALSE, error |-> "null",
    hasApiKey |-> key,
    nSends |-> 0,
    call |-> [k \in SendIds |-> [pc |-> "idle", text |-> "", type |-> "fast", reply |-> ""]],
    cleared |-> FALSE,
    nTrans |-> 0,
    trans |-> [t \in TransIds |-> "idle"],
    returned |-> "none", replied |-> "none",
    overlapped |-> FALSE,
    lastOp |-> "init" ]

UserMessage(text) == [role |-> "user", text |-> text, isThinking |-> "undefined"]

\* Mutant: the model entry without the reasoning tag.
ModelMessageUntagged(responseText, type) ==
  [role |-> "model",
   text |-> IF responseText = "" THEN "No response generated." ELSE responseText,
   isThinking |-> "false"]

\* The model entry of a successful request, 61-65.
ModelMessage(responseText, type) ==
  [role |-> "model",
   text |-> IF responseText = "" THEN "No response generated." ELSE responseText,
   isThinking |-> IF type = "thinking" THEN "true" ELSE "false"]

\* Mutant: a catch block that appends the placeholder without reporting the error.
SendFailedSilent(ch, k, msg) ==
  [ch EXCEPT !.messages = Append(@, [role |-> "model",
                                     text |-> "Error: Could not generate response.",
                                     isThinking |-> "undefined"]),
             !.isLoading = FALSE,
             !.call[k].pc = "failed"]

\* The catch and finally blocks of sendMessage, 67-73.
SendFailed(ch, k, msg) ==
  [ch EXCEPT !.error = msg,
             !.messages = Append(@, [role |-> "model",
                                     text |-> "Error: Could not generate response.",
                                     isThinking |-> "undefined"]),
             !.isLoading = FALSE,
             !.call[k].pc = "failed"]

\* Mutant: a sendMessage that leaves the loading flag alone.
SendMessageNoFlag(ch, text, type) ==
  [ch EXCEPT !.nSends = @ + 1, !.error = "null",
             !.messages = Append(@, UserMessage(text)),
             !.call[ch.nSends + 1] = [pc |-> "pending", text |-> text, type |-> type,
                                      reply |-> ""]]

\* sendMessage 22-57: up to `await ai.models.generateContent`.
SendMessage(ch, text, type) ==
  LET k  == ch.nSends + 1
      c1 == [ch EXCEPT !.nSends = k, !.isLoading = TRUE, !.error = "null",
                       !.messages = Append(@, UserMessage(text)),
                       !.call[k] = [pc |-> "pending", text |-> text, type |-> type,
                                    reply |-> ""]]
  IN  IF ~c1.hasApiKey THEN SendFailed(c1, k, "API Key not found") ELSE c1

\* Mutant: a continuation that replaces the transcript by the reply.
SendResolvedReplaces(ch, k, responseText) ==
  [ch EXCEPT !.messages = << ModelMessage(responseText, ch.call[k].type) >>,
             !.isLoading = FALSE,
             !.call[k].pc = "ok", !.call[k].reply = responseText]

\* The continuation of a fulfilled request, 59-65, then finally.
SendResolved(ch, k, responseText) ==
  [ch EXCEPT !.messages = Append(@, ModelMessage(responseText, ch.call[k].type)),
             !.isLoading = FALSE,
             !.call[k].pc = "ok", !.call[k].reply = responseText]

\* clearMessages, 100.
ClearMessages(ch) == [ch EXCEPT !.messages = << >>, !.cleared = TRUE]

\* Mutant: a transcribeAudio that raises the loading flag.
TranscribeAudioLoading(ch) ==
  [ch EXCEPT !.nTrans = @ + 1, !.trans[ch.nTrans + 1] = "pending", !.isLoading = TRUE]

\* transcribeAudio, 76-98: up to `await ai.models.generateContent`; getClient
\* throws on a missing key and the catch block rethrows.
TranscribeAudio(ch) ==
  LET t == ch.nTrans + 1
  IN  IF ~ch.hasApiKey
      THEN [ch EXCEPT !.nTrans = t, !.trans[t] = "done", !.returned = "threw"]
      ELSE [ch EXCEPT !.nTrans = t, !.trans[t] = "pending"]

\* response.text || "", 93.
TranscriptText(responseText) ==
  IF responseText \in {"undefined", ""} THEN "" ELSE responseText

\* The continuation of a fulfilled transcription request, 93.
TranscribeResolved(ch, t, responseText) ==
  [ch EXCEPT !.trans[t] = "done", !.returned = TranscriptText(responseText)]

\* The request rejects: the catch block, 94-97, rethrows.
TranscribeRejected(ch, t) == [ch EXCEPT !.trans[t] = "done", !.returned = "threw"]

\* ------------------------------------------------------------------ actions
ChatOp(ch, name) == [ch EXCEPT !.lastOp = name]

SendMessageCall(max) ==
  /\ chat.nSends < max
  /\ \E text \in Texts, type \in ChatModelTypes :
       chat' = [ChatOp(SendMessage(chat, text, type), "sendMessage")
                 EXCEPT !.overlapped = @ \/ \E k \in SendIds : chat.call[k].pc = "pending"]
  /\ UNCHANGED <<live, app, auth>>

ChatSendMessage == SendMessageCall(MaxSends)

TranscribeSendMessage == SendMessageCall(MaxTranscribeSends)

ChatSendResolved ==
  /\ \E k \in SendIds, responseText \in Replies :
       /\ chat.call[k].pc = "pending"
       /\ chat' = ChatOp(SendResolved(chat, k, responseText), "send_resolved")
  /\ UNCHANGED <<live, app, auth>>

ChatSendRejected ==
  /\ \E k \in SendIds :
       /\ chat.call[k].pc = "pending"
       /\ chat' = ChatOp(SendFailed(chat, k, "Failed to generate response"),
                         "send_rejected")
  /\ UNCHANGED <<live, app, auth>>

ChatClearMessages ==
  /\ chat' = ChatOp(ClearMessages(chat), "clearMessages")
  /\ UNCHANGED <<live, app, auth>>

ChatTranscribeAudio ==
  /\ chat.nTrans < MaxTrans
  /\ chat' = ChatOp(TranscribeAudio(chat), "transcribeAudio")
  /\ UNCHANGED <<live, app, auth>>

ChatTranscribeResolved ==
  /\ \E t \in TransIds, responseText \in TranscribeReplies :
       /\ chat.trans[t] = "pending"
       /\ chat' = [ChatOp(TranscribeResolved(chat, t, responseText), "transcribe_resolved")
                    EXCEPT !.replied = responseText]
  /\ UNCHANGED <<live, app, auth>>

ChatTranscribeRejected ==
  /\ \E t \in TransIds :
       /\ chat.trans[t] = "pending"
       /\ chat' = ChatOp(TranscribeRejected(chat, t), "transcribe_rejected")
  /\ UNCHANGED <<live, app, auth>>

\* ================================================================== identity

\* The identity fields signOut reads (part_001 37); `present` is FALSE for null.
NoUser == [present |-> FALSE, isAnonymous |-> FALSE, email |-> "null"]

\* The object continueAsGuest fabricates, 49-74.
GuestUser == [present |-> TRUE, isAnonymous |-> TRUE, email |-> "guest@preview.app"]

\* Identities the external provider can report: an e-mail account, an
\* anonymous account (no e-mail), and an account registered under the
\* sentinel address.
ProviderUsers ==
  { [present |-> TRUE, isAnonymous |-> FALSE, email |-> "user@example.org"],
    [present |-> TRUE, isAnonymous |-> TRUE,  email |-> "null"],
    [present |-> TRUE, isAnonymous |-> FALSE, email |-> "guest@preview.app"] }

\* AuthProvider state, 19-20, after the mount effect, 22-34.
\*   hasAuth       : `auth` of utils/firebase is defined
\*   providerCalls : calls of the provider's signOut made so far
\*   call[k]       : the k-th signOut() call
\* AuthScreen, part_005 29 and 84:
\*   screenError   : its `error` state
\*   guestTimers   : setTimeout callbacks of handleAuthError not yet run
\*   nAuthErrors   : handleAuthError calls so far; lastErr: the last one's argument
AuthInit(configured) ==
  [ user |-> NoUser, loading |-> configured, hasAuth |-> configured,
    providerCalls |-> 0, nSignOuts |-> 0,
    call |-> [k \in SignOutIds |-> "idle"],
    screenError |-> "null", guestTimers |-> 0, nAuthErrors |-> 0,
    lastErr |-> [code |-> "", message |-> << >>],
    lastOp |-> "init" ]

\* The onAuthStateChanged listener, 28-31.
AuthStateChanged(a, currentUser) == [a EXCEPT !.user = currentUser, !.loading = FALSE]

\* continueAsGuest, 48-77.
ContinueAsGuest(a) == [a EXCEPT !.user = GuestUser]

\* user?.isAnonymous && user?.email === 'guest@preview.app', 37.
IsGuest(u) == u.present /\ u.isAnonymous /\ u.email = "guest@preview.app"

\* Mutant: a signOut that clears every identity locally.
SignOutLocalOnly(a) ==
  [a EXCEPT !.nSignOuts = @ + 1, !.user = NoUser, !.call[a.nSignOuts + 1] = "local"]

\* signOut, 36-46: up to `await firebaseSignOut(auth)`.
SignOut(a) ==
  LET k  == a.nSignOuts + 1
      a1 == [a EXCEPT !.nSignOuts = k]
  IN  IF IsGuest(a1.user)
      THEN [a1 EXCEPT !.user = NoUser, !.call[k] = "local"]
      ELSE IF a1.hasAuth
           THEN [a1 EXCEPT !.providerCalls = @ + 1, !.call[k] = "awaiting"]
           ELSE [a1 EXCEPT !.user = NoUser, !.call[k] = "unconfigured"]

\* The continuation of a fulfilled `await firebaseSignOut(auth)`, 45.
SignOutResolved(a, k) == [a EXCEPT !.user = NoUser, !.call[k] = "delegated"]

\* firebaseSignOut rejects: the exception leaves signOut, 43.
SignOutRejected(a, k) == [a EXCEPT !.call[k] = "threw"]

\* ------------------------------------------------------------------ AuthScreen
\* Strings that the code searches are sequences of one-character strings.
UpperCase ==
  << "A", "B", "C", "D", "E", "F", "G", "H", "I", "J", "K", "L", "M", "N",
     "O", "P", "Q", "R", "S", "T", "U", "V", "W", "X", "Y", "Z" >>

LowerCase ==
  << "a", "b", "c", "d", "e", "f", "g", "h", "i", "j", "k", "l", "m", "n",
     "o", "p", "q", "r", "s", "t", "u", "v", "w", "x", "y", "z" >>

\* String.prototype.toLowerCase on the letters A-Z.
ToLowerCase(s) ==
  [i \in 1..Len(s) |->
     IF \E j \in 1..Len(UpperCase) : UpperCase[j] = s[i]
     THEN LowerCase[CHOOSE j \in 1..Len(UpperCase) : UpperCase[j] = s[i]]
     ELSE s[i]]

\* String.prototype.includes.
Includes(s, t) ==
  \E i \in 1..(Len(s) - Len(t) + 1) : SubSeq(s, i, i + Len(t) - 1) = t

\* The two texts handleAuthError looks for, part_005 78-79.
UnauthorizedDomainText ==
  << "u", "n", "a", "u", "t", "h", "o", "r", "i", "z", "e", "d", " ", "d",
     "o", "m", "a", "i", "n" >>

UnauthorizedDomainCode ==
  << "a", "u", "t", "h", "/", "u", "n", "a", "u", "t", "h", "o", "r", "i",
     "z", "e", "d", "-", "d", "o", "m", "a", "i", "n" >>

\* Errors a sign-in attempt can be rejected with: `code` is err.code ("" when
\* absent), `message` is err.message (empty when absent).
ErrDomainCode ==
  [code |-> "auth/unauthorized-domain", message |-> << >>]

ErrDomainText ==
  [code |-> "", message |->
  << "U", "n", "a", "u", "t", "h", "o", "r", "i", "z", "e", "d", " ", "D",
     "o", "m", "a", "i", "n" >>]

ErrDomainInMessage ==
  [code |-> "auth/internal-error", message |->
  << "E", "r", "r", "o", "r", " ", "(", "A", "U", "T", "H", "/", "U", "N",
     "A", "U", "T", "H", "O", "R", "I", "Z", "E", "D", "-", "D", "O", "M",
     "A", "I", "N", ")", "." >>]

ErrWrongPassword ==
  [code |-> "auth/wrong-password", message |->
  << "E", "r", "r", "o", "r", " ", "(", "a", "u", "t", "h", "/", "w", "r",
     "o", "n", "g", "-", "p", "a", "s", "s", "w", "o", "r", "d", ")", "." >>]

ErrOtherDomain ==
  [code |-> "auth/invalid-email", message |->
  << "u", "n", "a", "u", "t", "h", "o", "r", "i", "z", "e", "d", "-", "d",
     "o", "m", "a", "i", "n" >>]

ErrRecaptcha ==
  [code |-> "", message |->
  << "R", "e", "c", "a", "p", "t", "c", "h", "a", " ", "s", "e", "t", "u",
     "p", " ", "f", "a", "i", "l", "e", "d" >>]

AuthErrors ==
  { ErrDomainCode, ErrDomainText, ErrDomainInMessage, ErrWrongPassword,
    ErrOtherDomain, ErrRecaptcha }

\* mapAuthError, part_005 52-68.
MapAuthError(code) ==
  CASE code = "auth/invalid-email" -> "Invalid email address."
    [] code = "auth/user-disabled" -> "User account disabled."
    [] code = "auth/user-not-found" -> "No account found with this email."
    [] code = "auth/wrong-password" -> "Incorrect password."
    [] code = "auth/email-already-in-use" -> "Email already in use."
    [] code = "auth/weak-password" -> "Password is too weak."
    [] code = "auth/popup-closed-by-user" -> "Sign in cancelled."
    [] code = "auth/invalid-verification-code" -> "Invalid OTP code."
    [] code = "auth/invalid-phone-number" -> "Invalid phone number format. Use +1..."
    [] code = "auth/unauthorized-domain" ->
         "Domain not authorized. Switching to Guest Mode..."
    [] code = "auth/api-key-not-valid" -> "Firebase API Key is invalid. Check config."
    [] code = "auth/operation-not-allowed" ->
         "This sign-in method is not enabled in Firebase Console."
    [] OTHER -> "Authentication failed (" \o code \o "). Please try again."

\* Mutant: a handleAuthError that looks at the code only.
HandleAuthErrorCodeOnly(a, err) ==
  IF err.code = "auth/unauthorized-domain"
  THEN [a EXCEPT !.screenError =
                   "Preview environment detected. Switching to Guest Mode automatically...",
                 !.guestTimers = @ + 1]
  ELSE [a EXCEPT !.screenError = MapAuthError(err.code)]

\* handleAuthError, part_005 70-90.
HandleAuthError(a, err) ==
  LET errorMessage == ToLowerCase(err.message)
      errorCode    == err.code
  IN  IF \/ errorCode = "auth/unauthorized-domain"
         \/ Includes(errorMessage, UnauthorizedDomainText)
         \/ Includes(errorMessage, UnauthorizedDomainCode)
      THEN [a EXCEPT !.screenError =
                       "Preview environment detected. Switching to Guest Mode automatically...",
                     !.guestTimers = @ + 1]
      ELSE [a EXCEPT !.screenError = MapAuthError(errorCode)]

\* The setTimeout callback of handleAuthError, 85-87.
GuestTimerFired(a) == ContinueAsGuest([a EXCEPT !.guestTimers = @ - 1])

\* ------------------------------------------------------------------ actions
AuthOp(a, name) == [a EXCEPT !.lastOp = name]

AuthOnStateChanged ==
  /\ auth.hasAuth
  /\ \E currentUser \in ProviderUsers \cup {NoUser} :
       auth' = AuthOp(AuthStateChanged(auth, currentUser), "authStateChanged")
  /\ UNCHANGED <<live, app, chat>>

AuthContinueAsGuest ==
  /\ auth' = AuthOp(ContinueAsGuest(auth), "continueAsGuest")
  /\ UNCHANGED <<live, app, chat>>

AuthSignOut ==
  /\ auth.nSignOuts < MaxSignOuts
  /\ auth' = AuthOp(SignOut(auth), "signOut")
  /\ UNCHANGED <<live, app, chat>>

AuthSignOutResolved ==
  /\ \E k \in SignOutIds :
       /\ auth.call[k] = "awaiting"
       /\ auth' = AuthOp(SignOutResolved(auth, k), "signOut_resolved")
  /\ UNCHANGED <<live, app, chat>>

AuthSignOutRejected ==
  /\ \E k \in SignOutIds :
       /\ auth.call[k] = "awaiting"
       /\ auth' = AuthOp(SignOutRejected(auth, k), "signOut_rejected")
  /\ UNCHANGED <<live, app, chat>>

\* A sign-in attempt of AuthScreen is rejected with err: its catch block.
AuthHandleAuthError ==
  /\ auth.hasAuth
  /\ auth.nAuthErrors < MaxAuthErrors
  /\ \E err \in AuthErrors :
       auth' = [AuthOp(HandleAuthError(auth, err), "handleAuthError")
                 EXCEPT !.nAuthErrors = @ + 1, !.lastErr = err]
  /\ UNCHANGED <<live, app, chat>>

AuthGuestTimerFired ==
  /\ auth.guestTimers > 0
  /\ auth' = AuthOp(GuestTimerFired(auth), "guestTimer")
  /\ UNCHANGED <<live, app, chat>>

\* ================================================================== specifications

\* process.env.API_KEY is fixed by the build: set or missing.
Init ==
  /\ \E key \in BOOLEAN : live = LiveInit(key)
  /\ app = AppInit
  /\ chat = ChatInit(TRUE)
  /\ auth = AuthInit(TRUE)

InitMedia ==
  /\ live = LiveInit(TRUE)
  /\ app = AppInit
  /\ chat = ChatInit(TRUE)
  /\ auth = AuthInit(TRUE)

InitChat ==
  /\ live = LiveInit(TRUE)
  /\ app = AppInit
  /\ \E key \in BOOLEAN : chat = ChatInit(key)
  /\ auth = AuthInit(TRUE)

Next ==
  \/ LiveDisconnect
  \/ LiveConnect
  \/ LiveConnectResumedIn
  \/ LiveConnectResumedOut
  \/ LiveConnectGotMic
  \/ LiveSessionRejected
  \/ LiveSessionOpened
  \/ LiveSessionClosed
  \/ LiveSessionErrored
  \/ LiveToggleMic
  \/ LiveStartVideoStream
  \/ LiveAudioProcess

Spec == Init /\ [][Next]_vars

NextPlayback ==
  \/ LiveDisconnect
  \/ PlaybackConnect
  \/ LiveConnectResumedIn
  \/ LiveConnectResumedOut
  \/ LiveConnectGotMic
  \/ LiveSessionRejected
  \/ LiveSessionOpened
  \/ LiveSessionClosed
  \/ LiveSessionErrored
  \/ LiveOnMessage
  \/ LiveDecoded
  \/ LiveSourceEnded
  \/ LiveTick
  \/ LiveToggleMic

SpecPlayback == Init /\ [][NextPlayback]_vars

\* The microphone toggle among the calls and events of connected sessions.
NextMic ==
  \/ LiveDisconnect
  \/ MicConnect
  \/ LiveConnectGotMic
  \/ LiveSessionOpened
  \/ LiveToggleMic
  \/ MicOnMessage
  \/ LiveDecoded
  \/ LiveSourceEnded

SpecMic == Init /\ [][NextMic]_vars

\* disconnect() among the calls and events that acquire what it releases.
NextTeardown ==
  \/ LiveDisconnect
  \/ MicConnect
  \/ LiveConnectGotMic
  \/ LiveSessionOpened
  \/ LiveStartVideoStream
  \/ MicOnMessage
  \/ LiveDecoded

SpecTeardown == Init /\ [][NextTeardown]_vars

\* The microphone flag over successive sessions.
NextMute ==
  \/ LiveDisconnect
  \/ MuteConnect
  \/ LiveConnectResumedIn
  \/ LiveConnectResumedOut
  \/ LiveConnectGotMic
  \/ LiveSessionOpened
  \/ LiveToggleMic

SpecMute == Init /\ [][NextMute]_vars

\* Audio messages over successive sessions.
NextCursor ==
  \/ LiveDisconnect
  \/ CursorConnect
  \/ LiveConnectGotMic
  \/ LiveSessionOpened
  \/ LiveSessionClosed
  \/ CursorOnMessage
  \/ LiveDecoded

SpecCursor == Init /\ [][NextCursor]_vars

\* The frame-sampling timer among the calls and events of a session.
NextVideo ==
  \/ LiveDisconnect
  \/ MicConnect
  \/ LiveConnectGotMic
  \/ LiveSessionOpened
  \/ LiveSessionClosed
  \/ LiveStartVideoStream
  \/ LiveVideoTick
  \/ LiveVideoBlobReady

SpecVideo == Init /\ [][NextVideo]_vars

NextMedia ==
  \/ AppStartMedia
  \/ AppAcquireResolved
  \/ AppAcquireRejected
  \/ AppPlayResolved
  \/ AppPlayRejected
  \/ AppHandleDisconnect
  \/ AppTrackEnded

SpecMedia == InitMedia /\ [][NextMedia]_vars

\* The browser supports any subset of the preference list.
InitRecord ==
  /\ live = LiveInit(TRUE)
  /\ \E S \in SUBSET {MimeTypes[i] : i \in 1..Len(MimeTypes)} :
       app = [AppInit EXCEPT !.supported = S]
  /\ chat = ChatInit(TRUE)
  /\ auth = AuthInit(TRUE)

NextRecord ==
  \/ RecordStartMedia
  \/ AppAcquireResolved
  \/ AppAcquireRejected
  \/ AppToggleScreenRecord
  \/ AppDataAvailable
  \/ AppHandleDisconnect

SpecRecord == InitRecord /\ [][NextRecord]_vars

\* Recordings with the events their recorders fire after stop().
NextBlob ==
  \/ RecordStartMedia
  \/ AppAcquireResolved
  \/ AppToggleScreenRecord
  \/ AppDataAvailable
  \/ AppRecorderStopped
  \/ AppHandleDisconnect

SpecBlob == InitRecord /\ [][NextBlob]_vars

\* The save dialog: a stream is active and every type is supported.
InitUpload ==
  /\ live = LiveInit(TRUE)
  /\ app = [AppInit EXCEPT !.supported = {MimeTypes[i] : i \in 1..Len(MimeTypes)},
                           !.startMediaRequestRef = 1, !.streamRef = 1,
                           !.stream[1] = "live", !.liveMode = "SCREEN",
                           !.req[1] = [pc |-> "done", mode |-> "SCREEN", late |-> FALSE]]
  /\ chat = ChatInit(TRUE)
  /\ auth = AuthInit(TRUE)

NextUpload ==
  \/ AppToggleScreenRecord
  \/ AppRecorderStopped
  \/ AppSaveClose
  \/ AppHandleDriveUpload
  \/ AppScriptsLoaded
  \/ AppScriptsFailed
  \/ AppTokenResponse
  \/ AppUploadProgress
  \/ AppUploadLoaded
  \/ AppUploadNetworkError

SpecUpload == InitUpload /\ [][NextUpload]_vars

NextChat ==
  \/ ChatSendMessage
  \/ ChatSendResolved
  \/ ChatSendRejected
  \/ ChatClearMessages

SpecChat == InitChat /\ [][NextChat]_vars

\* Transcription requests among the chat requests.
NextTranscribe ==
  \/ TranscribeSendMessage
  \/ ChatSendResolved
  \/ ChatSendRejected
  \/ ChatTranscribeAudio
  \/ ChatTranscribeResolved
  \/ ChatTranscribeRejected

SpecTranscribe == InitChat /\ [][NextTranscribe]_vars

\* utils/firebase either initialised `auth` or left it undefined.
InitAuth ==
  /\ live = LiveInit(TRUE)
  /\ app = AppInit
  /\ chat = ChatInit(TRUE)
  /\ \E configured \in BOOLEAN : auth = AuthInit(configured)

NextAuth ==
  \/ AuthOnStateChanged
  \/ AuthContinueAsGuest
  \/ AuthSignOut
  \/ AuthSignOutResolved
  \/ AuthSignOutRejected

SpecAuth == InitAuth /\ [][NextAuth]_vars

\* AuthScreen's error handling among sign-outs and provider reports.  A timer
\* set with setTimeout is never cleared (part_005 85-87), so its callback runs.
NextAuthScreen ==
  \/ AuthOnStateChanged
  \/ AuthSignOut
  \/ AuthSignOutResolved
  \/ AuthHandleAuthError
  \/ AuthGuestTimerFired

SpecAuthScreen == InitAuth /\ [][NextAuthScreen]_vars /\ WF_vars(AuthGuestTimerFired)

\* ================================================================== claims

\* ---- C1 (SpecPlayback).  Of two audio buffers that are both playing or waiting
\* to play, with no interruption involved, the one scheduled later begins no
\* earlier than the other's begin plus the other's duration: no two buffers
\* play at the same time.
Audible(m) ==
  /\ live.buf[m].phase = "scheduled"
  /\ live.buf[m].ctx = live.outputAudioContextRef
  /\ ~live.buf[m].stale

C1_NoOverlap ==
  \A i, j \in MsgIds :
    (Audible(i) /\ Audible(j) /\ live.buf[i].when < live.buf[j].when)
      => live.buf[j].begin >= live.buf[i].begin + live.buf[i].dur

\* ---- C2 (SpecPlayback).  Buffers are never reordered: when the message of
\* buffer i was received before the message of buffer j and both have been
\* started, i begins playing before j.
HasBegun(m) == live.buf[m].phase \in {"scheduled", "ended"} /\ ~live.buf[m].stale

C2_NeverReordered ==
  \A i, j \in MsgIds :
    (i < j /\ HasBegun(i) /\ HasBegun(j) /\ live.buf[i].ctx = live.buf[j].ctx)
      => live.buf[i].begin < live.buf[j].begin

\* ---- C3 (SpecPlayback).  When an interruption has been handled, no source is
\* scheduled, the scheduled-source set is empty, the cursor is zero and status is
\* 'listening'; and no buffer received before an interruption is started after it.
C3_Interruption ==
  /\ live.lastOp \in {"onmessage_interrupted", "decoded_interrupted"}
       => /\ live.audioSourcesRef = {}
          /\ live.nextStartTimeRef = 0
          /\ live.status = "listening"
          /\ \A m \in MsgIds : live.buf[m].phase # "scheduled"
  /\ \A m \in MsgIds :
       live.buf[m].stale => live.buf[m].phase \in {"decoding", "failed"}

\* ---- C4 (Spec).  At most one realtime session is open or being opened at any
\* time.
C4_OneSession ==
  Cardinality({c \in ConnIds : live.session[c] \in {"connecting", "open"}}) <= 1

\* ---- C5 (Spec).  When disconnect() has returned, every resource reference of
\* the hook is null, the scheduled-source set is empty, and isConnected = false,
\* isStreaming = false, status = 'inactive'.
C5_DisconnectClearsAll ==
  live.lastOp \in {"disconnect", "disconnect_all"}
    => /\ live.scriptProcessorRef = Null
       /\ live.inputSourceRef = Null
       /\ live.audioStreamRef = Null
       /\ live.inputAudioContextRef = Null
       /\ live.outputAudioContextRef = Null
       /\ live.outputGainNodeRef = Null
       /\ live.videoIntervalRef = Null
       /\ live.sessionPromiseRef = Null
       /\ live.audioSourcesRef = {}
       /\ ~live.isConnected /\ ~live.isStreaming /\ live.status = "inactive"

\* ---- C6 (SpecMic).  toggleMic() flips the microphone flag and leaves
\* isConnected, isStreaming, status, error, the session reference, the audio
\* contexts and the scheduled-source set unchanged; a second consecutive call
\* restores the flag's value from before the first.
C6_ToggleMicFrame ==
  [][live'.lastOp = "toggleMic"
       => /\ live'.isMicOnRef = ~live.isMicOnRef
          /\ live'.isMicOn = ~live.isMicOn
          /\ live'.isConnected = live.isConnected
          /\ live'.isStreaming = live.isStreaming
          /\ live'.status = live.status
          /\ live'.error = live.error
          /\ live'.sessionPromiseRef = live.sessionPromiseRef
          /\ live'.inputAudioContextRef = live.inputAudioContextRef
          /\ live'.outputAudioContextRef = live.outputAudioContextRef
          /\ live'.audioSourcesRef = live.audioSourcesRef
          /\ (live.lastOp = "toggleMic" => live'.isMicOnRef = live.micBefore)]_vars

\* Two consecutive toggleMic() calls have run while connected and speaking.
C6_Witness ==
  /\ live.lastOp = "toggleMic"
  /\ live.micBefore # live.isMicOnRef
  /\ live.isMicOnRef
  /\ live.isConnected
  /\ live.status = "speaking"
  /\ live.audioSourcesRef # {}

\* ---- C7 (SpecPlayback).  status changes only to 'listening' by a connect()
\* call, between 'listening' and 'speaking' on audio arrival and on drain or
\* interruption, and to 'inactive' on disconnect, close or a fatal error; it is
\* never 'processing'.
C7_StatusChange ==
  \/ live'.status = live.status
  \/ live'.status = "listening" /\ live'.lastOp = "connect"
  \/ /\ live.status = "listening" /\ live'.status = "speaking"
     /\ live'.lastOp = "onmessage_audio"
  \/ /\ live.status = "speaking" /\ live'.status = "listening"
     /\ live'.lastOp \in {"ended", "onmessage_interrupted", "decoded_interrupted"}
  \/ /\ live'.status = "inactive"
     /\ live'.lastOp \in {"disconnect", "disconnect_all", "onclose", "onerror", "rejected", "connect",
                          "connect_resumed", "connect_mic", "connect_mic_denied"}

C7_StatusMachine ==
  /\ [](live.status # "processing")
  /\ [][C7_StatusChange]_vars

\* ---- C8 (Spec).  A frame reaches the session only while the microphone flag is
\* true, and a frame captured while muted is not queued.
C8_MutedFrames ==
  /\ [](live.lastOp \in {"frame_sent", "onopen_flush"} => live.isMicOnRef)
  /\ [][live'.lastOp = "frame_muted" => live'.pendingFrames = live.pendingFrames]_vars

\* ---- C9 (SpecMedia).  A startMedia request that was superseded when its device
\* acquisition resolved has its stream stopped and is never the active stream;
\* a request that becomes the active stream is the latest request.
C9_Superseded ==
  /\ [](\A r \in ReqIds :
          app.req[r].late => app.stream[r] = "stopped" /\ app.streamRef # r)
  /\ [][app'.streamRef \notin {Null, app.streamRef}
          => app'.streamRef = app'.startMediaRequestRef]_vars

\* A superseded request has resolved and a later request holds the active stream.
C9_Witness ==
  \E r \in ReqIds :
    /\ app.req[r].late
    /\ app.req[r].pc = "done"
    /\ app.stream[r] = "stopped"
    /\ app.streamRef \notin {Null, r}

\* ---- C10 (SpecChat).  As stated: after a single successful sendMessage on an
\* empty transcript, the transcript is the user's entry followed by a model
\* entry carrying the reply text, tagged as reasoning exactly for the thinking tier.
SingleSendDone == chat.nSends = 1 /\ ~chat.cleared /\ chat.call[1].pc = "ok"

C10_ReplyVerbatim ==
  SingleSendDone
    => chat.messages =
         << [role |-> "user", text |-> chat.call[1].text, isThinking |-> "undefined"],
            [role |-> "model", text |-> chat.call[1].reply,
             isThinking |-> IF chat.call[1].type = "thinking" THEN "true" ELSE "false"] >>

\* ---- C10 (SpecChat), amended.  The model entry carries the reply text, or the
\* literal "No response generated." when the reply has no text.
C10_SingleSend ==
  SingleSendDone
    => /\ Len(chat.messages) = 2
       /\ chat.messages[1] =
            [role |-> "user", text |-> chat.call[1].text, isThinking |-> "undefined"]
       /\ chat.messages[2].role = "model"
       /\ chat.messages[2].text =
            (IF chat.call[1].reply = "" THEN "No response generated."
             ELSE chat.call[1].reply)
       /\ (chat.messages[2].isThinking = "true") <=> (chat.call[1].type = "thinking")

\* A single send with the thinking tier has succeeded with an empty reply.
C10_Witness ==
  /\ SingleSendDone
  /\ chat.call[1].type = "thinking"
  /\ chat.call[1].reply = ""
  /\ Len(chat.messages) = 2

\* ---- C11 (SpecAuth).  A signOut() call made with the guest identity clears
\* the identity and makes no call of the provider's sign-out; a call made with
\* any other identity calls the provider's sign-out once and leaves the identity
\* as it is, which is cleared when that call succeeds and kept when it fails.
C11_SignOut ==
  [][/\ (auth'.lastOp = "signOut" /\ auth.user = GuestUser)
          => auth'.user = NoUser /\ auth'.providerCalls = auth.providerCalls
     /\ (auth'.lastOp = "signOut" /\ auth.user \in ProviderUsers)
          => /\ auth'.providerCalls = auth.providerCalls + 1
             /\ auth'.user = auth.user
             /\ auth'.call[auth'.nSignOuts] = "awaiting"
     /\ auth'.lastOp = "signOut_resolved" => auth'.user = NoUser
     /\ auth'.lastOp = "signOut_rejected" => auth'.user = auth.user]_vars

\* A guest has signed out locally and another identity through the provider.
C11_Witness ==
  /\ \E k \in SignOutIds : auth.call[k] = "local"
  /\ \E k \in SignOutIds : auth.call[k] = "delegated"
  /\ auth.providerCalls = 1
  /\ auth.user = NoUser

\* ---- C12 (Spec).  When a session reports an error or its connection promise
\* is rejected, the error is set, isConnected and isStreaming are false, status
\* is 'inactive', and the microphone track, the processing node, the contexts
\* and the timers of that session are released.
SessionFailedNow(c) ==
  /\ live'.session[c] # live.session[c]
  /\ live'.session[c] \in {"failed", "rejected"}

TornDown(h, c) ==
  /\ h.error # "null"
  /\ ~h.isConnected /\ ~h.isStreaming /\ h.status = "inactive"
  /\ h.micTrack[c] \notin {"enabled", "disabled"}
  /\ h.processor[c] = Null
  /\ h.inputAudioContextRef # c /\ h.outputAudioContextRef # c
  /\ h.timers = {}

C12_ErrorTeardown ==
  [][\A c \in ConnIds : SessionFailedNow(c) => TornDown(live', c)]_vars

\* ---- C13 (Spec).  A connect() call that fails on a missing API key or a
\* rejected microphone request opens no session and ends with status 'inactive',
\* isConnected false, the error set, and its audio contexts and microphone
\* released; afterwards no session is opened for that call.
ConnectFailedNow(c) ==
  /\ live.pc[c] # "done" /\ live'.pc[c] = "done"
  /\ \/ live'.lastOp = "connect" /\ ~live.hasApiKey
     \/ live'.lastOp = "connect_mic_denied"

C13_ConnectAborts ==
  /\ [][\A c \in ConnIds :
          ConnectFailedNow(c)
            => /\ live'.session[c] = "none"
               /\ live'.status = "inactive" /\ ~live'.isConnected
               /\ live'.inputAudioContextRef # c /\ live'.outputAudioContextRef # c
               /\ live'.micTrack[c] = "none"
               /\ live'.sessionPromiseRef # c]_vars
  /\ [][\A c \in ConnIds :
          (live.pc[c] = "done" /\ live.session[c] = "none")
            => live'.session[c] = "none"]_vars

\* A connect() call has failed on a rejected microphone request, after it had
\* created its audio contexts.
C13_Witness ==
  /\ live.lastOp = "connect_mic_denied"
  /\ live.error = "NotAllowedError"
  /\ live.outputGainNodeRef # Null
  /\ live.inputAudioContextRef = Null /\ live.outputAudioContextRef = Null
  /\ \E c \in ConnIds : live.pc[c] = "done" /\ live.session[c] = "none"

\* ---- C14 (SpecChat).  Every step other than clearMessages leaves the
\* existing transcript entries in place and in order (the old transcript is a
\* prefix of the new one); sendMessage appends the user's entry in its first
\* step, while its request is still to complete; clearMessages empties the
\* transcript.
IsPrefix(s, t) == Len(s) <= Len(t) /\ SubSeq(t, 1, Len(s)) = s

C14_AppendOnly ==
  [][/\ chat'.lastOp = "clearMessages" => chat'.messages = << >>
     /\ chat'.lastOp # "clearMessages" => IsPrefix(chat.messages, chat'.messages)
     /\ chat'.lastOp = "sendMessage"
          => /\ Len(chat'.messages) > Len(chat.messages)
             /\ chat'.messages[Len(chat.messages) + 1]
                  = [role |-> "user", text |-> chat'.call[chat'.nSends].text,
                     isThinking |-> "undefined"]
             /\ chat.hasApiKey
                  => /\ chat'.call[chat'.nSends].pc = "pending"
                     /\ Len(chat'.messages) = Len(chat.messages) + 1]_vars

\* Every request is in flight, with every user entry in the transcript.
C14_Witness ==
  /\ chat.lastOp = "sendMessage"
  /\ \A k \in SendIds : chat.call[k].pc = "pending"
  /\ Len(chat.messages) = MaxSends

\* ---- C15 (SpecChat).  The step in which call k completes; the transcript the
\* model entry is appended to; the entry appended.
SendCompletedNow(k) ==
  /\ chat.call[k].pc \in {"idle", "pending"}
  /\ chat'.call[k].pc \in {"ok", "failed"}

SendBase(k) ==
  IF chat.call[k].pc = "idle"
  THEN Append(chat.messages, [role |-> "user", text |-> chat'.call[k].text,
                              isThinking |-> "undefined"])
  ELSE chat.messages

SendAppendsOne(k) ==
  /\ Len(chat'.messages) = Len(SendBase(k)) + 1
  /\ SubSeq(chat'.messages, 1, Len(SendBase(k))) = SendBase(k)
  /\ chat'.messages[Len(chat'.messages)].role = "model"
  /\ chat'.messages[Len(chat'.messages)].text =
       (IF chat'.call[k].pc = "failed" THEN "Error: Could not generate response."
        ELSE IF chat'.call[k].reply = "" THEN "No response generated."
        ELSE chat'.call[k].reply)
  /\ (~chat'.cleared)
       => \E i \in 1..Len(SendBase(k)) :
            SendBase(k)[i] = [role |-> "user", text |-> chat'.call[k].text,
                              isThinking |-> "undefined"]
  /\ chat'.call[k].pc = "failed" => chat'.error # "null" /\ ~chat'.isLoading

\* ---- C15 (SpecChat).  As stated: every completing sendMessage call appends
\* exactly one model entry after its user entry, the reply or the failure
\* placeholder, tagged as reasoning exactly when the call used the thinking
\* tier; a failed call sets the error and leaves the loading flag false.
C15_TaggedByTier ==
  [][\A k \in SendIds :
       SendCompletedNow(k)
         => /\ SendAppendsOne(k)
            /\ (chat'.messages[Len(chat'.messages)].isThinking = "true")
                 <=> (chat'.call[k].type = "thinking")]_vars

\* ---- C15 (SpecChat), amended.  The reply entry is tagged as reasoning exactly
\* when the call used the thinking tier; the failure placeholder carries no tag.
C15_SendCompletes ==
  [][\A k \in SendIds :
       SendCompletedNow(k)
         => /\ SendAppendsOne(k)
            /\ chat'.messages[Len(chat'.messages)].isThinking =
                 (IF chat'.call[k].pc = "failed" THEN "undefined"
                  ELSE IF chat'.call[k].type = "thinking" THEN "true" ELSE "false")]_vars

\* A request of the thinking tier has failed and its placeholder is the last entry.
C15_Witness ==
  /\ chat.lastOp = "send_rejected"
  /\ \E k \in SendIds : chat.call[k].pc = "failed" /\ chat.call[k].type = "thinking"
  /\ Len(chat.messages) >= 2
  /\ chat.messages[Len(chat.messages)].text = "Error: Could not generate response."
  /\ chat.error # "null"

\* ---- C16 (SpecTranscribe).  No step of transcribeAudio changes the
\* transcript, the loading flag or the error; a fulfilled request returns the
\* reply text, or the empty string when the reply has none; a rejected request
\* or a missing key makes the call throw.
C16_TranscribeFrame ==
  [][/\ chat'.lastOp \in {"transcribeAudio", "transcribe_resolved", "transcribe_rejected"}
          => /\ chat'.messages = chat.messages
             /\ chat'.isLoading = chat.isLoading
             /\ chat'.error = chat.error
     /\ chat'.lastOp = "transcribe_resolved"
          => chat'.returned = (IF chat'.replied \in {"undefined", ""} THEN ""
                               ELSE chat'.replied)
     /\ chat'.lastOp = "transcribe_rejected" => chat'.returned = "threw"
     /\ (chat'.lastOp = "transcribeAudio" /\ ~chat.hasApiKey)
          => chat'.returned = "threw"]_vars

\* A transcription has returned the empty string while a chat request is in
\* flight.
C16_Witness ==
  /\ chat.lastOp = "transcribe_resolved"
  /\ chat.returned = "" /\ chat.replied = "undefined"
  /\ chat.isLoading
  /\ Len(chat.messages) > 0

\* ---- C17 (SpecChat).  sendMessage sets the loading flag when it starts a
\* request and clears it when it completes; as long as no two calls have
\* overlapped, the flag is true exactly while a request is in flight.
SendInFlight == \E k \in SendIds : chat.call[k].pc = "pending"

C17_LoadingFlag ==
  /\ []((~chat.overlapped) => (chat.isLoading <=> SendInFlight))
  /\ [][/\ (chat'.lastOp = "sendMessage" /\ chat.hasApiKey) => chat'.isLoading
        /\ chat'.lastOp \in {"send_resolved", "send_rejected"} => ~chat'.isLoading]_vars

\* With two overlapping calls, the flag is false while a request is in flight.
C17_Witness ==
  /\ chat.overlapped
  /\ ~chat.isLoading
  /\ SendInFlight

\* ---- C18 (SpecRecord).  A start of a screen recording with no active stream,
\* or with no supported type in the list, makes no recorder, leaves the chunk
\* buffer as it is and leaves isScreenRecording false; a start that begins
\* recording uses the first supported type of the ordered list.
FirstSupported(m) ==
  \E i \in 1..Len(MimeTypes) :
    /\ MimeTypes[i] = m
    /\ m \in app.supported
    /\ \A j \in 1..(i - 1) : MimeTypes[j] \notin app.supported

C18_ScreenRecordStart ==
  [][app'.lastOp = "startScreenRecord"
       => /\ (app.streamRef = Null \/ app.supported \cap {MimeTypes[i] : i \in 1..Len(MimeTypes)} = {})
               => /\ app'.nRecorders = app.nRecorders
                  /\ app'.screenRecorder = app.screenRecorder
                  /\ app'.screenChunksRef = app.screenChunksRef
                  /\ ~app'.isScreenRecording
          /\ app'.nRecorders # app.nRecorders => FirstSupported(app'.screenMime)
          /\ app'.isScreenRecording
               => /\ app'.nRecorders = app.nRecorders + 1
                  /\ app'.screenRecorder = "recording"
                  /\ app'.screenChunksRef = << >>]_vars

\* A second recording has started with the third entry of the list, the first
\* two being unsupported.
C18_Witness ==
  /\ app.lastOp = "startScreenRecord"
  /\ app.isScreenRecording
  /\ app.nRecorders = 2
  /\ app.screenMime = "video/webm"
  /\ "video/mp4" \in app.supported

\* ---- C19 (SpecPlayback).  While connected, status is 'speaking' whenever a
\* scheduled source has not completed (sources of buffers received before an
\* interruption left aside), and status becomes 'listening' only with an empty
\* scheduled-source set.
C19_SpeakingWhileScheduled ==
  /\ []((/\ live.isConnected
         /\ \E m \in live.audioSourcesRef :
              live.buf[m].phase = "scheduled" /\ ~live.buf[m].stale)
          => live.status = "speaking")
  /\ [][(live'.isConnected /\ live.status # "listening" /\ live'.status = "listening")
          => live'.audioSourcesRef = {}]_vars

\* ---- C20 (SpecTeardown).  disconnect() passes through states in which the
\* processing node, the audio source node, the media tracks, the input context,
\* the scheduled output sources, the output context and the frame-sampling
\* timer are released one after the other in this order, each resource not yet
\* reached being as it was at the call; the connection, streaming and status
\* flags keep their values until all seven are released, and are reset then.
C20_ReleaseOrder ==
  [][live'.lastOp \in {"disconnect", "disconnect_all"}
       => LET T == DisconnectTrace(live)
          IN  /\ live' = Op(T[9], live'.lastOp)
              /\ \A i \in 0..7 :
                   /\ \A j \in 1..7 :
                        /\ j <= i => ~Held(T[i + 1], j)
                        /\ j > i => (Held(T[i + 1], j) <=> Held(live, j))
                   /\ T[i + 1].isConnected = live.isConnected
                   /\ T[i + 1].isStreaming = live.isStreaming
                   /\ T[i + 1].status = live.status
              /\ ~T[9].isConnected /\ ~T[9].isStreaming /\ T[9].status = "inactive"]_vars

\* disconnect() has run in a connected state holding all seven resources.
C20_Witness ==
  /\ live.lastOp = "disconnect_all"
  /\ \E m \in MsgIds : live.buf[m].phase = "stopped"
  /\ \E c \in ConnIds : live.session[c] = "open" /\ live.micTrack[c] = "stopped"
  /\ live.timers = {} /\ live.nTimers > 0

\* ---- C21 (SpecVideo).  At most one frame-sampling timer is active, and it is
\* the one videoIntervalRef holds; startVideoStream() leaves exactly its new
\* timer active; after disconnect() no timer is active; a timer tick with no
\* session reference, or with a video of zero width or height, captures no
\* frame, and a frame is forwarded only from a captured one.
C21_OneTimer ==
  /\ [](/\ Cardinality(live.timers) <= 1
        /\ live.timers \subseteq {live.videoIntervalRef}
        /\ live.lastOp \in {"disconnect", "disconnect_all"} => live.timers = {})
  /\ [][/\ live'.lastOp = "startVideoStream"
             => /\ live'.timers = {live'.videoIntervalRef}
                /\ live'.videoIntervalRef \notin live.timers
        /\ (live'.lastOp \in {"videotick_nosession", "videotick_nodims",
                              "videotick_captured"}
              /\ live.sessionPromiseRef = Null)
             => live'.lastOp = "videotick_nosession"
        /\ live'.lastOp \in {"videotick_nosession", "videotick_nodims"}
             => live'.videoPending = live.videoPending
        /\ live'.lastOp \in {"videoframe_sent", "videoframe_queued"}
             => live.videoPending > 0 /\ live.sessionPromiseRef # Null]_vars

\* A second startVideoStream() has replaced a running timer, and a tick of the
\* new timer was skipped for a video without dimensions.
C21_Witness ==
  /\ live.lastOp = "videotick_nodims"
  /\ live.nTimers = 2
  /\ live.timers = {2}
  /\ live.isConnected

\* ---- C22 (SpecPlayback).  While the session that sessionPromiseRef holds is
\* closed (its close event fired and no disconnect() or connect() came since),
\* isConnected and isStreaming are false and status is 'inactive'.
C22_CloseIsFinal ==
  (live.sessionPromiseRef # Null /\ live.session[live.sessionPromiseRef] = "closed")
    => ~live.isConnected /\ ~live.isStreaming /\ live.status = "inactive"

\* ---- C23 (SpecMic).  A rejected device acquisition of startMedia leaves the
\* active stream and liveMode as they were and clears the media-loading flag
\* exactly when the request is still the latest; a connect() whose microphone
\* request is denied leaves the hook's error as it was.
C23_MediaDenied ==
  app'.lastOp = "acquire_rejected" /\ app' # app
    => /\ app'.streamRef = app.streamRef
       /\ app'.liveMode = app.liveMode
       /\ \E r \in ReqIds :
            /\ app.req[r].pc = "acquiring" /\ app'.req[r].pc = "done"
            /\ app'.isMediaLoading =
                 IF r = app.startMediaRequestRef THEN FALSE ELSE app.isMediaLoading

C23_SilentDenial ==
  [][/\ C23_MediaDenied
     /\ live'.lastOp = "connect_mic_denied" => live'.error = live.error]_vars

\* ---- C24 (SpecBlob).  When a recorder's stop event fires, exactly one blob
\* is built; its parts are the non-empty chunks that recorder delivered, in
\* arrival order, and nothing else; the save dialog is open.
C24_BlobOfRecording ==
  [][app'.lastOp = "recorder_stop" /\ app' # app
       => \E k \in RecIds :
            /\ app.recPending[k] = "stop" /\ app'.recPending[k] = "done"
            /\ app'.nBlobs = app.nBlobs + 1
            /\ app'.recordedBlob = app'.emitted[k]
            /\ app'.isSaveDialogOpen]_vars

\* ---- C25 (SpecAuthScreen).  A rejected sign-in whose error carries the
\* unauthorized-domain code, or whose message names the unauthorized domain in
\* any letter case, schedules the guest switch, and every scheduled switch
\* eventually sets the guest identity; any other rejected sign-in schedules
\* nothing, leaves the identity alone and sets the mapped message; the guest
\* identity is set by nothing but a scheduled switch.
C25_DomainErrors == {ErrDomainCode, ErrDomainText, ErrDomainInMessage}

C25_GuestOnDomainError ==
  /\ (auth.guestTimers > 0) ~> (auth.lastOp = "guestTimer" /\ IsGuest(auth.user))
  /\ [][auth'.lastOp = "handleAuthError" /\ auth'.nAuthErrors # auth.nAuthErrors
          => /\ auth'.user = auth.user
             /\ IF auth'.lastErr \in C25_DomainErrors
                THEN auth'.guestTimers = auth.guestTimers + 1
                ELSE /\ auth'.guestTimers = auth.guestTimers
                     /\ auth'.screenError = MapAuthError(auth'.lastErr.code)]_vars
  /\ [][IsGuest(auth'.user) /\ ~IsGuest(auth.user) => auth'.lastOp = "guestTimer"]_vars

\* The guest identity has been set by the timer of an error recognised by its
\* message text alone.
C25_Witness ==
  /\ auth.lastOp = "guestTimer"
  /\ IsGuest(auth.user)
  /\ auth.lastErr = ErrDomainText
  /\ auth.nAuthErrors = 1

\* ---- C26 (SpecUpload).  Each outcome that ends an upload flow leaves
\* isUploading false; a failing one sets exactly one error message and leaves
\* uploadSuccess false; a success sets uploadSuccess with no error message; the
\* progress value is always between 0 and 100.
C26_Failures ==
  {"upload_scriptFailed", "upload_initFailed", "upload_noToken", "upload_rejected",
   "upload_networkError"}

C27_Released(h) ==
  /\ ~h.isConnected
  /\ h.status = "inactive"
  /\ h.audioStreamRef = Null
  /\ h.sessionPromiseRef = Null

C27_DisconnectHolds ==
  [][live.lastOp \in {"disconnect", "disconnect_all"}
       => /\ C27_Released(live)
          /\ live'.lastOp # "connect" => C27_Released(live')]_vars

\* ---- C28 (SpecCursor).  When the first audio message of a session arrives,
\* no other session being open and every earlier buffer having been decoded
\* while its own session was current, the playback cursor is set to the current time of the session's output context.
C28_FreshCursor ==
  [][live'.lastOp = "onmessage_audio" /\ live'.nMsgs = live.nMsgs + 1
       => ((/\ \A m \in 1..live.nMsgs :
                 /\ live.buf[m].ctx # live.outputAudioContextRef
                 /\ live.buf[m].phase \notin {"decoding", "silent"}
            /\ \A c \in ConnIds :
                 live.session[c] = "open" => c = live.outputAudioContextRef)
             => live'.nextStartTimeRef = live.currentTime)]_vars

\* ---- C29 (SpecMedia).  In the state handleDisconnect() leaves, and after any
\* one continuation or event that comes next (anything but a startMedia call),
\* no stream is the active stream, liveMode is NONE and no frame-sampling timer
\* runs.
C29_Idle(a, h) ==
  /\ a.streamRef = Null
  /\ a.liveMode = "NONE"
  /\ h.timers = {}

C29_DisconnectHolds ==
  [][app.lastOp = "handleDisconnect"
       => /\ C29_Idle(app, live)
          /\ app'.lastOp # "startMedia" => C29_Idle(app', live')]_vars

\* ---- C30 (SpecMute).  While audioStreamRef holds a stream, its track is
\* enabled exactly when the microphone flag is true; the isMicOn state equals
\* the flag; disconnect() leaves the flag as it is.
C30_TrackFollowsFlag ==
  /\ [](/\ live.audioStreamRef # Null
           => live.micTrack[live.audioStreamRef] =
                IF live.isMicOnRef THEN "enabled" ELSE "disabled"
        /\ live.isMicOn = live.isMicOnRef)
  /\ [][live'.lastOp \in {"disconnect", "disconnect_all", "connect"}
          => live'.isMicOnRef = live.isMicOnRef]_vars

\* The second connect() has acquired its stream muted: the mute was chosen
\* before it, and the first session's track has been stopped.
C30_Witness ==
  /\ live.lastOp = "connect_mic"
  /\ live.audioStreamRef = 2
  /\ ~live.isMicOnRef
  /\ live.micTrack[2] = "disabled"
  /\ live.micTrack[1] = "stopped"
====
